---------------------------- MODULE Spec2Model ----------------------------
(***************************************************************************)
(* Model of obmehdi/maroc_dams_project.                                    *)
(*                                                                         *)
(*   src/flood_risk_analyzer.py          FloodRiskAnalyzer: point          *)
(*       elevation, zone extraction, low-zone statistics, the flood-risk   *)
(*       score and the per-building batch.                                 *)
(*   src/scripts/scraper_barrages_maroc.py   BarragesScraper.run: fetch,   *)
(*       parse, JSON save, PostgreSQL insert.                              *)
(*                                                                         *)
(* Python values are modelled as tagged records: a float is Num(n) (metres *)
(* and millimetres are whole numbers here), float('nan') is NaN and None   *)
(* is None.  Comparisons follow IEEE-754 and numpy: every ordered or       *)
(* equality comparison with NaN is false, and `x == None` on a numpy       *)
(* scalar is false.                                                        *)
(***************************************************************************)
EXTENDS Integers, Sequences, FiniteSets

VARIABLES
    dem,        \* the raster behind FloodRiskAnalyzer.dem_url
    call,       \* the last FloodRiskAnalyzer method called, with its arguments
    outcome,    \* what that call did: [kind |-> "return", val |-> ...] or [kind |-> "raise", ...]
    pc,         \* BarragesScraper: position inside main()/run()
    db_url,     \* os.getenv('DATABASE_URL'): "unset", "empty" or "url"
    html,       \* run's local `html`
    barrages,   \* run's local `barrages`
    json_file,  \* barrages_data.json on disk
    json_before,\* barrages_data.json as it was when main() started
    pg_table,   \* rows upserted into historique_niveaux
    steps,      \* the methods run() has called so far, in order
    run_result, \* run()'s return value
    exit_code   \* the process exit code set by main()

vars == <<dem, call, outcome, pc, db_url, html, barrages, json_file, json_before,
          pg_table, steps, run_result, exit_code>>

analyzerVars == <<dem, call, outcome>>
scraperVars == <<pc, db_url, html, barrages, json_file, json_before, pg_table, steps,
                 run_result, exit_code>>

-----------------------------------------------------------------------------
(* Bounds of the model. *)

\* Number of pixels of the one-row raster.
RasterWidth == 2

\* Longest building sequence handed to analyze_populated_areas.
MaxBuildings == 2

\* Most data rows (after the header row) of the scraped HTML table.
MaxRows == 2

-----------------------------------------------------------------------------
(* Python values. *)

None == [t |-> "none", v |-> 0]
NaN == [t |-> "nan", v |-> 0]
Num(n) == [t |-> "num", v |-> n]

IsNone(x) == x.t = "none"
IsNaN(x) == x.t = "nan"
IsNum(x) == x.t = "num"

\* Python/numpy `a < b` on floats: false as soon as one side is NaN.
Lt(a, b) == IsNum(a) /\ IsNum(b) /\ a.v < b.v

\* Python/numpy `a > b` on floats.
Gt(a, b) == IsNum(a) /\ IsNum(b) /\ a.v > b.v

\* numpy `elevation == src.nodata`: NaN equals nothing (itself included), and a
\* numpy scalar never equals None (an undeclared nodata).
NpEq(a, b) == IsNum(a) /\ IsNum(b) /\ a.v = b.v

RECURSIVE SeqSum(_)
SeqSum(s) == IF s = <<>> THEN 0 ELSE Head(s) + SeqSum(Tail(s))

SeqMin(s) == CHOOSE x \in {s[i] : i \in DOMAIN s} : \A i \in DOMAIN s : x <= s[i]
SeqMax(s) == CHOOSE x \in {s[i] : i \in DOMAIN s} : \A i \in DOMAIN s : x >= s[i]

\* Sequences over S of length at most n.
SeqsUpTo(S, n) == UNION {[1..k -> S] : k \in 0..n}

-----------------------------------------------------------------------------
(* The elevation raster (the file rasterio opens at /vsicurl/<dem_url>).   *)
(* One row of RasterWidth pixels; pixel c covers longitudes [c, c+1) and   *)
(* latitudes [1, 2).  ok = FALSE is a raster that cannot be opened or read *)
(* (network, format, timeout).                                             *)

CellSamples == {NaN, Num(-32768), Num(49), Num(50), Num(99), Num(100), Num(199), Num(200)}

NoDataSamples == {None, NaN, Num(-32768)}

Unreachable == [ok |-> FALSE, nodata |-> None, cells |-> <<>>]

DemSamples ==
    {Unreachable} \cup
    {[ok |-> TRUE, nodata |-> nd, cells |-> cs] :
        nd \in NoDataSamples, cs \in [1..RasterWidth -> CellSamples]}

Lons == 1..(RasterWidth + 1)
Lats == {1}

\* src.index(lon, lat) followed by the 1x1 window read: the pixel exists.
InExtent(d, lon, lat) == lat = 1 /\ lon \in 1..Len(d.cells)

Return(v) == [kind |-> "return", val |-> v]
Raise(e) == [kind |-> "raise", val |-> e]

-----------------------------------------------------------------------------
(* FloodRiskAnalyzer.get_elevation *)

\* Every failure inside the try block (the raster cannot be opened, the 1x1
\* window lies outside the raster so that [0, 0] finds no pixel) is caught and
\* becomes None.  Otherwise the pixel is compared with src.nodata by `==`.
GetElevation(d, lon, lat) ==
    IF ~d.ok THEN None
    ELSE IF ~InExtent(d, lon, lat) THEN None
    ELSE LET elevation == d.cells[lon]
         IN  IF NpEq(elevation, d.nodata) THEN None ELSE elevation

-----------------------------------------------------------------------------
(* FloodRiskAnalyzer.get_elevation_zone *)

Boxes ==
    {[min_lon |-> a, min_lat |-> b, max_lon |-> c, max_lat |-> e] :
        a \in Lons, c \in Lons, b \in {1, 2}, e \in {1, 2}}

\* from_bounds(*bbox, transform=src.transform) yields a window that holds
\* pixels only for a box with min < max on both axes.  The method itself never
\* tests the box.
ValidBox(bbox) == bbox.min_lon < bbox.max_lon /\ bbox.min_lat < bbox.max_lat

\* np.where(elevation_data == src.nodata, np.nan, elevation_data), per pixel.
MaskNoData(d, v) == IF NpEq(v, d.nodata) THEN NaN ELSE v

\* from_bounds(*bbox) and src.read(1, window=window), flattened to a sequence.
WindowCells(d, bbox) ==
    [i \in 1..(bbox.max_lon - bbox.min_lon) |->
        MaskNoData(d, d.cells[bbox.min_lon + i - 1])]

Grid(cs) == [t |-> "grid", cells |-> cs]

\* The set of results the call can produce.  No line of the method looks at
\* the box: a box with min >= max reaches rasterio, which either raises (caught:
\* None) or reads a window without pixels (an empty array), depending on the
\* box and on the library version.
GetElevationZone(d, bbox) ==
    IF ~d.ok THEN {None}
    ELSE IF ~ValidBox(bbox) THEN {None, Grid(<<>>)}
    ELSE {Grid(WindowCells(d, bbox))}

-----------------------------------------------------------------------------
(* FloodRiskAnalyzer.identify_low_zones *)

Thresholds == {50, 100}

\* The non-NaN cells of a grid, in order.
RECURSIVE ValidCells(_)
ValidCells(cs) ==
    IF cs = <<>> THEN <<>>
    ELSE IF IsNaN(Head(cs)) THEN ValidCells(Tail(cs))
    ELSE <<Head(cs).v>> \o ValidCells(Tail(cs))

\* CountLow with `<=`: a cell exactly at the threshold counts as low.
RECURSIVE CountLow_Inclusive(_, _)
CountLow_Inclusive(cs, threshold) ==
    IF cs = <<>> THEN 0
    ELSE (IF Lt(Head(cs), Num(threshold + 1)) THEN 1 ELSE 0)
         + CountLow_Inclusive(Tail(cs), threshold)

\* np.sum(elevation_data < threshold): NaN < threshold is False.
RECURSIVE CountLow(_, _)
CountLow(cs, threshold) ==
    IF cs = <<>> THEN 0
    ELSE (IF Lt(Head(cs), Num(threshold)) THEN 1 ELSE 0) + CountLow(Tail(cs), threshold)

\* A float quotient num/den, kept exact.
Ratio(n, m) == [t |-> "ratio", num |-> n, den |-> m]

\* np.nanmin: NaN (and a RuntimeWarning) when every cell is NaN.
NanMin(cs) == IF ValidCells(cs) = <<>> THEN NaN ELSE Num(SeqMin(ValidCells(cs)))

NanMax(cs) == IF ValidCells(cs) = <<>> THEN NaN ELSE Num(SeqMax(ValidCells(cs)))

\* np.nanmean: the sum of the valid cells over their number.
NanMean(cs) ==
    IF ValidCells(cs) = <<>> THEN NaN
    ELSE Ratio(SeqSum(ValidCells(cs)), Len(ValidCells(cs)))

\* Lines 112-126 on a grid.  On a grid of size 0 np.nanmin raises ValueError
\* (a reduction of a zero-size array), which nothing catches.
LowZoneStats(cs, threshold) ==
    IF Len(cs) = 0 THEN Raise("ValueError")
    ELSE Return([total_pixels |-> Len(cs),
                 low_zone_pixels |-> CountLow(cs, threshold),
                 low_zone_percentage |-> Ratio(CountLow(cs, threshold) * 100, Len(cs)),
                 min_elevation |-> NanMin(cs),
                 max_elevation |-> NanMax(cs),
                 mean_elevation |-> NanMean(cs)])

IdentifyLowZones(elevation_data, threshold) ==
    IF IsNone(elevation_data) THEN Return(None)
    ELSE LowZoneStats(elevation_data.cells, threshold)

-----------------------------------------------------------------------------
(* FloodRiskAnalyzer.calculate_flood_risk_score *)

DistanceSamples == {Num(0), Num(99), Num(100), Num(150), Num(299), Num(300), Num(499),
                    Num(500), Num(999), Num(1000)}

RainSamples == {Num(0), Num(10), Num(11), Num(30), Num(31), Num(50), Num(51), Num(65),
                Num(80), Num(81)}

\* AltitudeScore with the first boundary inclusive: exactly 50 m scores 40.
AltitudeScore_Inclusive(elevation) ==
    IF ~Gt(elevation, Num(50)) /\ IsNum(elevation) THEN 40
    ELSE IF Lt(elevation, Num(100)) THEN 30
    ELSE IF Lt(elevation, Num(200)) THEN 15
    ELSE 5

AltitudeScore(elevation) ==
    IF Lt(elevation, Num(50)) THEN 40
    ELSE IF Lt(elevation, Num(100)) THEN 30
    ELSE IF Lt(elevation, Num(200)) THEN 15
    ELSE 5

DistanceScore(waterway_distance) ==
    IF Lt(waterway_distance, Num(100)) THEN 35
    ELSE IF Lt(waterway_distance, Num(300)) THEN 25
    ELSE IF Lt(waterway_distance, Num(500)) THEN 15
    ELSE IF Lt(waterway_distance, Num(1000)) THEN 5
    ELSE 0

RainScore(precipitation_24h) ==
    IF Gt(precipitation_24h, Num(80)) THEN 25
    ELSE IF Gt(precipitation_24h, Num(50)) THEN 20
    ELSE IF Gt(precipitation_24h, Num(30)) THEN 12
    ELSE IF Gt(precipitation_24h, Num(10)) THEN 5
    ELSE 0

\* RiskLevel with the top threshold exclusive: a total of 70 is not CRITIQUE.
RiskLevel_Exclusive(score) ==
    IF score > 70 THEN "CRITIQUE"
    ELSE IF score >= 40 THEN "ÉLEVÉ"
    ELSE IF score >= 20 THEN "MODÉRÉ"
    ELSE "FAIBLE"

RiskLevel(score) ==
    IF score >= 70 THEN "CRITIQUE"
    ELSE IF score >= 40 THEN "ÉLEVÉ"
    ELSE IF score >= 20 THEN "MODÉRÉ"
    ELSE "FAIBLE"

RiskColor(score) ==
    IF score >= 70 THEN "#D32F2F"
    ELSE IF score >= 40 THEN "#F57C00"
    ELSE IF score >= 20 THEN "#FBC02D"
    ELSE "#388E3C"

\* ScoreFrom without `score += rain_score`.
ScoreFrom_NoRain(elevation, lon, lat, waterway_distance, precipitation_24h) ==
    IF IsNone(elevation) THEN Raise("TypeError")
    ELSE LET score == AltitudeScore(elevation) + DistanceScore(waterway_distance)
         IN  Return([score |-> score,
                     risk_level |-> RiskLevel(score),
                     color |-> RiskColor(score),
                     details |-> [altitude_m |-> elevation,
                                  altitude_score |-> AltitudeScore(elevation),
                                  distance_oued_m |-> waterway_distance,
                                  distance_score |-> DistanceScore(waterway_distance),
                                  pluie_24h_mm |-> precipitation_24h,
                                  pluie_score |-> RainScore(precipitation_24h)],
                     coordinates |-> [lon |-> lon, lat |-> lat]])

\* Lines 146-216.  `elevation < 50` with elevation None raises TypeError.
ScoreFrom(elevation, lon, lat, waterway_distance, precipitation_24h) ==
    IF IsNone(elevation) THEN Raise("TypeError")
    ELSE LET score == AltitudeScore(elevation) + DistanceScore(waterway_distance)
                        + RainScore(precipitation_24h)
         IN  Return([score |-> score,
                     risk_level |-> RiskLevel(score),
                     color |-> RiskColor(score),
                     details |-> [altitude_m |-> elevation,
                                  altitude_score |-> AltitudeScore(elevation),
                                  distance_oued_m |-> waterway_distance,
                                  distance_score |-> DistanceScore(waterway_distance),
                                  pluie_24h_mm |-> precipitation_24h,
                                  pluie_score |-> RainScore(precipitation_24h)],
                     coordinates |-> [lon |-> lon, lat |-> lat]])

ErrorResult == [error |-> "Altitude non disponible"]

\* calculate_flood_risk_score without the `if elevation is None` return.
CalculateFloodRiskScore_NoCheck(d, lon, lat, waterway_distance, precipitation_24h) ==
    ScoreFrom(GetElevation(d, lon, lat), lon, lat, waterway_distance, precipitation_24h)

CalculateFloodRiskScore(d, lon, lat, waterway_distance, precipitation_24h) ==
    IF IsNone(GetElevation(d, lon, lat)) THEN Return(ErrorResult)
    ELSE ScoreFrom(GetElevation(d, lon, lat), lon, lat, waterway_distance,
                   precipitation_24h)

-----------------------------------------------------------------------------
(* FloodRiskAnalyzer.analyze_populated_areas *)

\* A building: its centroid, and the distance from it to the nearest oued
\* (what a caller-supplied distance function answers for it).
Buildings ==
    {[centroid |-> [x |-> lon, y |-> lat], waterway_m |-> wd] :
        lon \in Lons, lat \in Lats, wd \in {Num(50), Num(500)}}

AreaRainSamples == {Num(65)}

\* "Pour le MVP, distance fictive": waterway_distance = 500  # TODO: Calcul reel
StubWaterwayDistance(building) == Num(500)

\* The loop of lines 232-252: the list `results`, or the exception that ends it.
RECURSIVE AreaResults(_, _, _)
AreaResults(d, bs, precipitation_24h) ==
    IF bs = <<>> THEN Return(<<>>)
    ELSE LET building == Head(bs)
             risk == CalculateFloodRiskScore(d, building.centroid.x, building.centroid.y,
                                             StubWaterwayDistance(building),
                                             precipitation_24h)
             rest == AreaResults(d, Tail(bs), precipitation_24h)
         IN  IF risk.kind = "raise" THEN risk
             ELSE IF rest.kind = "raise" THEN rest
             ELSE IF "error" \in DOMAIN risk.val THEN rest
             ELSE Return(<<[geometry |-> building,
                            risk_score |-> risk.val.score,
                            risk_level |-> risk.val.risk_level,
                            elevation |-> risk.val.details.altitude_m]>> \o rest.val)

\* gpd.GeoDataFrame(results, crs='EPSG:4326').  With an empty list there is no
\* geometry column to give the CRS to: geopandas returns an empty frame or
\* raises ValueError, depending on its version.
AnalyzePopulatedAreas(d, bs, precipitation_24h) ==
    LET r == AreaResults(d, bs, precipitation_24h)
    IN  IF r.kind = "raise" THEN {r}
        ELSE IF r.val = <<>> THEN {r, Raise("ValueError")}
        ELSE {r}

-----------------------------------------------------------------------------
(* The analyzer as a state machine: one action per public method.  The     *)
(* methods are synchronous and keep no state besides dem_url: the caller   *)
(* makes a call, reads its outcome and is then ready for the next call.    *)

NoCall == [op |-> "none"]

Idle == call = NoCall

CallGetElevation ==
    /\ Idle
    /\ \E lon \in Lons, lat \in Lats :
        /\ call' = [op |-> "get_elevation", lon |-> lon, lat |-> lat]
        /\ outcome' = Return(GetElevation(dem, lon, lat))
        /\ UNCHANGED <<dem, scraperVars>>

CallGetElevationZone ==
    /\ Idle
    /\ \E bbox \in Boxes :
        \E g \in GetElevationZone(dem, bbox) :
            /\ call' = [op |-> "get_elevation_zone", bbox |-> bbox]
            /\ outcome' = Return(g)
            /\ UNCHANGED <<dem, scraperVars>>

CallIdentifyLowZones ==
    /\ Idle
    /\ \E bbox \in Boxes, threshold \in Thresholds :
        \E g \in GetElevationZone(dem, bbox) :
            /\ call' = [op |-> "identify_low_zones", bbox |-> bbox,
                        threshold |-> threshold, elevation_data |-> g]
            /\ outcome' = IdentifyLowZones(g, threshold)
            /\ UNCHANGED <<dem, scraperVars>>

CallCalculateFloodRiskScore ==
    /\ Idle
    /\ \E lon \in Lons, lat \in Lats, wd \in DistanceSamples, p \in RainSamples :
        /\ call' = [op |-> "calculate_flood_risk_score", lon |-> lon, lat |-> lat,
                    waterway_distance |-> wd, precipitation_24h |-> p]
        /\ outcome' = CalculateFloodRiskScore(dem, lon, lat, wd, p)
        /\ UNCHANGED <<dem, scraperVars>>

CallAnalyzePopulatedAreas ==
    /\ Idle
    /\ \E bs \in SeqsUpTo(Buildings, MaxBuildings), p \in AreaRainSamples :
        \E o \in AnalyzePopulatedAreas(dem, bs, p) :
            /\ call' = [op |-> "analyze_populated_areas", buildings |-> bs,
                        precipitation_24h |-> p]
            /\ outcome' = o
            /\ UNCHANGED <<dem, scraperVars>>

\* The caller has consumed the outcome.
Resume ==
    /\ ~Idle
    /\ call' = NoCall
    /\ outcome' = Return(None)
    /\ UNCHANGED <<dem, scraperVars>>


-----------------------------------------------------------------------------
(* BarragesScraper: the page, and parse_barrages_table *)

\* A data row of the table is the sequence of the texts of its <td> cells.
RowSamples ==
    { <<"Al Wahda", "Sebou", "100">>,
      <<"Al Wahda", "Sebou", "100", "50">>,
      <<"Al Wahda", "Sebou", "100", "50", "50%">>,
      <<"Bin El Ouidane", "Oum Er-Rbia", "100", "50", "">>,
      <<"Al Massira", "Oum Er-Rbia", "100", "n/a", "">>,
      <<"Idriss 1er", "Sebou", "0", "50", "">> }

\* self.session.get(...).text, or None after a RequestException.
NoHtml == [t |-> "none", blank |-> TRUE, has_table |-> FALSE, rows |-> <<>>]
BlankHtml == [t |-> "text", blank |-> TRUE, has_table |-> FALSE, rows |-> <<>>]
Page(has_table, rows) == [t |-> "text", blank |-> FALSE, has_table |-> has_table, rows |-> rows]

HtmlSamples ==
    {NoHtml, BlankHtml, Page(FALSE, <<>>)} \cup
    {Page(TRUE, rows) : rows \in SeqsUpTo(RowSamples, MaxRows)}

\* Python `not html`.
NotHtml(h) == h.t = "none" \/ h.blank

\* _parse_number on the sample texts: float(cleaned) if cleaned else None, and
\* None after a ValueError.
ParseNumber(text) ==
    CASE text = "100" -> Num(100)
      [] text = "50" -> Num(50)
      [] text = "0" -> Num(0)
      [] OTHER -> None

\* _parse_percentage on the sample texts: float('') and float('n/a') raise
\* ValueError, which becomes None.
ParsePercentage(text) ==
    CASE text = "50%" -> Num(50)
      [] text = "50" -> Num(50)
      [] text = "100" -> Num(100)
      [] text = "0" -> Num(0)
      [] OTHER -> None

\* Python truthiness of capacite_totale: neither None nor 0.0.
Truthy(x) == IsNum(x) /\ x.v # 0

\* datetime.now().strftime('%Y-%m-%d') on the day the run starts and on the
\* day after.
Dates == <<"2026-02-04", "2026-02-05">>

\* What the clock answers while the rows of a table of n rows are parsed, one
\* date per row: datetime.now() is read for each row, so midnight may pass
\* before row k (k = n + 1: it does not pass).
ClockReadings(n) ==
    {[i \in 1..n |-> IF i < k THEN Dates[1] ELSE Dates[2]] : k \in 1..(n + 1)}

\* The body of the row loop: <<barrage>> when the row is appended, <<>> when
\* it is skipped (fewer than 4 cells; cells[4] IndexError on a row of 4 cells;
\* TypeError dividing a None volume; both caught by `except Exception`).
\* `now` is the date datetime.now() gives while the row is parsed.
\* The sample volumes and capacities divide evenly, so round(..., 2) of the
\* quotient is the quotient.
ParseRow(cells, now) ==
    IF Len(cells) < 4 THEN <<>>
    ELSE IF Len(cells) < 5 THEN <<>>
    ELSE LET capacite == ParseNumber(cells[3])
             volume == ParseNumber(cells[4])
             taux == ParsePercentage(cells[5])
         IN  IF IsNone(taux) /\ Truthy(capacite)
             THEN IF IsNone(volume) THEN <<>>
                  ELSE <<[nom |-> cells[1], bassin |-> cells[2],
                          capacite_totale |-> capacite, volume_actuel |-> volume,
                          taux_remplissage |-> Num((volume.v * 100) \div capacite.v),
                          date_maj |-> now]>>
             ELSE <<[nom |-> cells[1], bassin |-> cells[2],
                     capacite_totale |-> capacite, volume_actuel |-> volume,
                     taux_remplissage |-> taux, date_maj |-> now]>>

\* The row loop; clock[i] is the date while rows[i] is parsed.
RECURSIVE ParseRows(_, _)
ParseRows(rows, clock) ==
    IF rows = <<>> THEN <<>>
    ELSE ParseRow(Head(rows), Head(clock)) \o ParseRows(Tail(rows), Tail(clock))

ParseBarragesTable(h, clock) == IF ~h.has_table THEN <<>> ELSE ParseRows(h.rows, clock)

-----------------------------------------------------------------------------
(* BarragesScraper: save_to_json and insert_to_postgres *)

\* barrages_data.json: whether the file exists, whether its text is a complete
\* JSON document, and the document's nombre_barrages and barrages.
NoFile == [exists |-> FALSE, document |-> FALSE, nombre_barrages |-> 0, barrages |-> <<>>]

\* The file json.dump writes.
JsonDocument(data) ==
    [exists |-> TRUE, document |-> TRUE, nombre_barrages |-> Len(data), barrages |-> data]

\* open(filepath, 'w') has created or truncated the file and the write then
\* failed: the file exists, empty or holding the beginning of the text, and is
\* no JSON document.  What an earlier document held is lost.
BrokenFile == [exists |-> TRUE, document |-> FALSE, nombre_barrages |-> 0, barrages |-> <<>>]

\* The document an earlier run left.
PreviousDocument ==
    JsonDocument(<<[nom |-> "Al Wahda", bassin |-> "Sebou", capacite_totale |-> Num(100),
                    volume_actuel |-> Num(0), taux_remplissage |-> Num(0),
                    date_maj |-> "2026-02-03"]>>)

\* barrages_data.json before the run.
FileSamples == {NoFile, PreviousDocument}

\* save_to_json's effect on the file: the document is written; or open() itself
\* fails and the file is as before; or the write fails after open().  The last
\* two return False after the caught exception.
SaveOutcomes(file, data) == {JsonDocument(data), file, BrokenFile}

\* Python truthiness of os.getenv('DATABASE_URL'): unset (None) and '' are false.
EnvSamples == {"unset", "empty", "url"}

DatabaseUrlSet(u) == u = "url"

\* Two rows of one INSERT ... ON CONFLICT (barrage_nom, date_mesure) DO UPDATE
\* with the same name and the same date (date_mesure is d['date_maj']):
\* PostgreSQL rejects the statement.
DuplicateKey(data) ==
    \E i, j \in DOMAIN data :
        i # j /\ data[i].nom = data[j].nom /\ data[i].date_maj = data[j].date_maj

-----------------------------------------------------------------------------
(* BarragesScraper.run and main, one action per step of run. *)

ScraperIdle ==
    /\ pc = "main"
    /\ html = NoHtml
    /\ barrages = <<>>
    /\ json_file = json_before
    /\ pg_table = <<>>
    /\ steps = <<>>
    /\ run_result = "none"
    /\ exit_code = "none"

\* run(), step 1: html = self.fetch_page(); `if not html: return False`.
FetchPage ==
    /\ pc = "main"
    /\ \E h \in HtmlSamples :
        /\ html' = h
        /\ steps' = Append(steps, "fetch_page")
        /\ IF NotHtml(h)
           THEN pc' = "returned" /\ run_result' = "False"
           ELSE pc' = "parse" /\ UNCHANGED run_result
    /\ UNCHANGED <<analyzerVars, json_before, db_url, barrages, json_file, pg_table, exit_code>>

\* ParseTable without the `if not barrages: return False`.
ParseTable_NoEarlyReturn ==
    /\ pc = "parse"
    /\ \E clock \in ClockReadings(Len(html.rows)) :
           barrages' = ParseBarragesTable(html, clock)
    /\ steps' = Append(steps, "parse_barrages_table")
    /\ pc' = "save"
    /\ UNCHANGED <<analyzerVars, json_before, db_url, html, json_file, pg_table, run_result, exit_code>>

\* run(), step 2: barrages = self.parse_barrages_table(html);
\* `if not barrages: return False`.
ParseTable ==
    /\ pc = "parse"
    /\ \E clock \in ClockReadings(Len(html.rows)) :
        /\ barrages' = ParseBarragesTable(html, clock)
        /\ IF ParseBarragesTable(html, clock) = <<>>
           THEN pc' = "returned" /\ run_result' = "False"
           ELSE pc' = "save" /\ UNCHANGED run_result
    /\ steps' = Append(steps, "parse_barrages_table")
    /\ UNCHANGED <<analyzerVars, json_before, db_url, html, json_file, pg_table, exit_code>>

\* run(), step 3: self.save_to_json(barrages); its result is not looked at.
SaveToJson ==
    /\ pc = "save"
    /\ steps' = Append(steps, "save_to_json")
    /\ json_file' \in SaveOutcomes(json_file, barrages)
    /\ pc' = "insert"
    /\ UNCHANGED <<analyzerVars, json_before, db_url, html, barrages, pg_table, run_result, exit_code>>

\* run(), step 4, DATABASE_URL truthy: self.insert_to_postgres(barrages); its
\* result is not looked at.  The upsert commits, or an exception (connection,
\* statement) is caught and nothing is committed.
InsertToPostgres ==
    /\ pc = "insert"
    /\ DatabaseUrlSet(db_url)
    /\ steps' = Append(steps, "insert_to_postgres")
    /\ \/ ~DuplicateKey(barrages) /\ pg_table' = barrages
       \/ UNCHANGED pg_table
    /\ pc' = "returned"
    /\ run_result' = "True"
    /\ UNCHANGED <<analyzerVars, json_before, db_url, html, barrages, json_file, exit_code>>

\* run(), step 4, DATABASE_URL unset or empty: a warning, no insert.
SkipPostgres ==
    /\ pc = "insert"
    /\ ~DatabaseUrlSet(db_url)
    /\ pc' = "returned"
    /\ run_result' = "True"
    /\ UNCHANGED <<analyzerVars, json_before, db_url, html, barrages, json_file, pg_table, steps,
                   exit_code>>

\* main(): `if not success: exit(1)`.
MainExit ==
    /\ pc = "returned"
    /\ exit_code' = IF run_result = "True" THEN "0" ELSE "1"
    /\ pc' = "exited"
    /\ UNCHANGED <<analyzerVars, json_before, db_url, html, barrages, json_file, pg_table, steps,
                   run_result>>

\* FloodRiskAnalyzer(dem_url) has been constructed; nothing has been called.
Init ==
    /\ dem \in DemSamples
    /\ call = NoCall
    /\ outcome = Return(None)
    /\ db_url = "unset"
    /\ json_before = NoFile
    /\ ScraperIdle

Next ==
    \/ CallGetElevation
    \/ CallGetElevationZone
    \/ CallIdentifyLowZones
    \/ CallCalculateFloodRiskScore
    \/ CallAnalyzePopulatedAreas
    \/ Resume

Spec == Init /\ [][Next]_vars

\* The scraper process: main() is about to run; no analyzer is involved.
InitScraper ==
    /\ dem = Unreachable
    /\ call = NoCall
    /\ outcome = Return(None)
    /\ db_url \in EnvSamples
    /\ json_before \in FileSamples
    /\ ScraperIdle

NextScraper ==
    \/ FetchPage
    \/ ParseTable
    \/ SaveToJson
    \/ InsertToPostgres
    \/ SkipPostgres
    \/ MainExit

SpecScraper == InitScraper /\ [][NextScraper]_vars

-----------------------------------------------------------------------------
(* Properties. *)

Called(op) == call.op = op

\* The last call was calculate_flood_risk_score and it returned a scored result.
Scored ==
    /\ Called("calculate_flood_risk_score")
    /\ outcome.kind = "return"
    /\ "score" \in DOMAIN outcome.val

\* get_elevation's answer for the point of the last point call.
PointElevation == GetElevation(dem, call.lon, call.lat)

\* C1: whenever the elevation of the point is available,
\* calculate_flood_risk_score returns a score that lies in [0, 100] and equals
\* altitude_score + distance_score + pluie_score of the result's details.
C1_ScoreInRangeAndSum ==
    (Called("calculate_flood_risk_score") /\ ~IsNone(PointElevation)) =>
        /\ Scored
        /\ outcome.val.score \in 0..100
        /\ outcome.val.score = outcome.val.details.altitude_score
                                + outcome.val.details.distance_score
                                + outcome.val.details.pluie_score

\* The three top buckets together: the maximum, 100.
C1_Witness == Scored /\ outcome.val.score = 100

\* The spec's sub-score tables: each bucket's condition on the input, and its points.
AltitudeBuckets(e) ==
    { <<e < 50, 40>>, <<50 <= e /\ e < 100, 30>>, <<100 <= e /\ e < 200, 15>>,
      <<e >= 200, 5>> }

DistanceBuckets(d) ==
    { <<d < 100, 35>>, <<100 <= d /\ d < 300, 25>>, <<300 <= d /\ d < 500, 15>>,
      <<500 <= d /\ d < 1000, 5>>, <<d >= 1000, 0>> }

RainBuckets(r) ==
    { <<r > 80, 25>>, <<50 < r /\ r <= 80, 20>>, <<30 < r /\ r <= 50, 12>>,
      <<10 < r /\ r <= 30, 5>>, <<r <= 10, 0>> }

\* Exactly one bucket applies, and it carries `points`.
OneBucket(buckets, points) == {b \in buckets : b[1]} = {<<TRUE, points>>}

\* C2: for every (real-valued) elevation, distance and rainfall, each sub-score
\* of calculate_flood_risk_score is the points of the one bucket of the spec's
\* table that applies to the input.
C2_SubScoresMatchTable ==
    (Scored /\ IsNum(outcome.val.details.altitude_m)) =>
        /\ OneBucket(AltitudeBuckets(outcome.val.details.altitude_m.v),
                     outcome.val.details.altitude_score)
        /\ OneBucket(DistanceBuckets(call.waterway_distance.v),
                     outcome.val.details.distance_score)
        /\ OneBucket(RainBuckets(call.precipitation_24h.v),
                     outcome.val.details.pluie_score)

\* Below 50 m, 150 m from the oued, 65 mm of rain: 40 + 25 + 20 = 85.
C2_Witness ==
    /\ Scored
    /\ outcome.val.details.altitude_m = Num(49)
    /\ call.waterway_distance = Num(150)
    /\ call.precipitation_24h = Num(65)
    /\ outcome.val.details.altitude_score = 40
    /\ outcome.val.details.distance_score = 25
    /\ outcome.val.details.pluie_score = 20
    /\ outcome.val.score = 85

\* The spec's category thresholds on the total.
ExpectedCategory(total) ==
    IF total >= 70 THEN <<"CRITIQUE", "#D32F2F">>
    ELSE IF 40 <= total /\ total < 70 THEN <<"ÉLEVÉ", "#F57C00">>
    ELSE IF 20 <= total /\ total < 40 THEN <<"MODÉRÉ", "#FBC02D">>
    ELSE <<"FAIBLE", "#388E3C">>

\* C3: the risk level and color of a result are those of the spec's thresholds
\* applied to the result's total score, and the code's threshold chain agrees
\* with the spec's on every total from 0 to 100 (69 and 70, 39 and 40, 19 and
\* 20 included).
C3_CategoryFromTotal ==
    Scored =>
        /\ <<outcome.val.risk_level, outcome.val.color>> = ExpectedCategory(outcome.val.score)
        /\ \A total \in 0..100 :
               <<RiskLevel(total), RiskColor(total)>> = ExpectedCategory(total)

\* A total of exactly 70, the lowest CRITIQUE.
C3_Witness ==
    /\ Scored
    /\ outcome.val.score = 70
    /\ outcome.val.risk_level = "CRITIQUE"
    /\ outcome.val.color = "#D32F2F"

\* C4: calculate_flood_risk_score never raises, and whenever get_elevation
\* reports the elevation as unavailable it returns the error result, which
\* holds no score, risk level or color.
C4_ErrorResultNeverRaises ==
    Called("calculate_flood_risk_score") =>
        /\ outcome.kind = "return"
        /\ IsNone(PointElevation) => DOMAIN outcome.val = {"error"}

\* The point lies in a raster that can be read, on a no-data pixel.
C4_Witness ==
    /\ Called("calculate_flood_risk_score")
    /\ dem.ok
    /\ InExtent(dem, call.lon, call.lat)
    /\ IsNone(PointElevation)
    /\ outcome = Return(ErrorResult)

\* The pixel at (lon, lat) holds the value the raster declares as no-data.
HoldsNoData(d, lon, lat) ==
    /\ d.ok
    /\ InExtent(d, lon, lat)
    /\ ~IsNone(d.nodata)
    /\ d.cells[lon] = d.nodata

\* C5 (as claimed): get_elevation returns None whenever the raster cannot be
\* read, the point lies outside the raster, or the pixel holds the raster's
\* no-data value, whatever that value is.
C5_NoDataIsUnavailable ==
    (/\ Called("get_elevation")
     /\ \/ ~dem.ok
        \/ ~InExtent(dem, call.lon, call.lat)
        \/ HoldsNoData(dem, call.lon, call.lat))
        => outcome = Return(None)

\* The grid the last identify_low_zones call read holds no valid cell.
NoValidCell ==
    /\ Called("identify_low_zones")
    /\ ~IsNone(call.elevation_data)
    /\ \A i \in DOMAIN call.elevation_data.cells : IsNaN(call.elevation_data.cells[i])

\* C6 (as claimed): on a grid that is empty or entirely not-a-number,
\* identify_low_zones neither raises nor returns min/max/mean statistics.
C6_EmptyGridReported ==
    NoValidCell =>
        /\ outcome.kind = "return"
        /\ "min_elevation" \notin DOMAIN outcome.val

\* The indices of the valid (non-NaN) cells of a grid.
ValidIndices(cs) == {i \in DOMAIN cs : ~IsNaN(cs[i])}

RECURSIVE SumOver(_, _)
SumOver(cs, I) ==
    IF I = {} THEN 0
    ELSE LET i == CHOOSE j \in I : TRUE IN cs[i].v + SumOver(cs, I \ {i})

\* C7: on a grid with at least one valid cell, identify_low_zones counts the
\* valid cells strictly below the threshold, takes min, max and mean over the
\* valid cells only, counts every cell (NaN included) in total_pixels, and
\* reports 100 * low_zone_pixels / total_pixels as the percentage.
C7_LowZoneStatistics ==
    (/\ Called("identify_low_zones")
     /\ ~IsNone(call.elevation_data)
     /\ ValidIndices(call.elevation_data.cells) # {})
        =>
        LET cs == call.elevation_data.cells
            V == ValidIndices(cs)
            low == {i \in V : cs[i].v < call.threshold}
        IN  /\ outcome.kind = "return"
            /\ outcome.val.total_pixels = Len(cs)
            /\ outcome.val.low_zone_pixels = Cardinality(low)
            /\ outcome.val.low_zone_percentage.num * Len(cs)
                   = 100 * Cardinality(low) * outcome.val.low_zone_percentage.den
            /\ IsNum(outcome.val.min_elevation)
            /\ \A i \in V : outcome.val.min_elevation.v <= cs[i].v
            /\ \E i \in V : outcome.val.min_elevation.v = cs[i].v
            /\ IsNum(outcome.val.max_elevation)
            /\ \A i \in V : outcome.val.max_elevation.v >= cs[i].v
            /\ \E i \in V : outcome.val.max_elevation.v = cs[i].v
            /\ outcome.val.mean_elevation.num * Cardinality(V)
                   = SumOver(cs, V) * outcome.val.mean_elevation.den

\* A NaN cell beside a cell exactly at the threshold: two pixels, none low.
C7_Witness ==
    /\ Called("identify_low_zones")
    /\ outcome.kind = "return"
    /\ call.elevation_data = Grid(<<NaN, Num(100)>>)
    /\ call.threshold = 100
    /\ outcome.val.total_pixels = 2
    /\ outcome.val.low_zone_pixels = 0
    /\ outcome.val.mean_elevation = Ratio(100, 1)

\* What the claim expects of the batch: one result per building whose
\* elevation is available, in order, scored with the building's own distance
\* to the nearest oued.
RECURSIVE ExpectedAreaResults(_, _, _)
ExpectedAreaResults(d, bs, p) ==
    IF bs = <<>> THEN <<>>
    ELSE LET b == Head(bs)
             risk == CalculateFloodRiskScore(d, b.centroid.x, b.centroid.y, b.waterway_m, p)
         IN  (IF IsNone(GetElevation(d, b.centroid.x, b.centroid.y)) THEN <<>>
              ELSE <<[geometry |-> b, risk_score |-> risk.val.score,
                      risk_level |-> risk.val.risk_level,
                      elevation |-> risk.val.details.altitude_m]>>)
             \o ExpectedAreaResults(d, Tail(bs), p)

\* C8 (as claimed): analyze_populated_areas never fails the batch and returns,
\* in input order, one result per building whose elevation is available, each
\* carrying the score and level calculate_flood_risk_score gives for the
\* building's centroid, its waterway distance and the shared precipitation.
C8_BatchResults ==
    Called("analyze_populated_areas") =>
        /\ outcome.kind = "return"
        /\ outcome.val = ExpectedAreaResults(dem, call.buildings, call.precipitation_24h)

\* C9 (as claimed): a bounding box with min_lon >= max_lon or min_lat >= max_lat
\* makes get_elevation_zone fail with a validation error, and
\* identify_low_zones on such a box does not return the None of a failed fetch.
C9_InvalidBoxFailsFast ==
    /\ (Called("get_elevation_zone") /\ ~ValidBox(call.bbox)) => outcome.kind = "raise"
    /\ (Called("identify_low_zones") /\ ~ValidBox(call.bbox)) => outcome # Return(None)

RunSteps == <<"fetch_page", "parse_barrages_table", "save_to_json", "insert_to_postgres">>

StepTaken(name) == \E i \in DOMAIN steps : steps[i] = name

Finished == pc \in {"returned", "exited"}

\* C10: run calls fetch_page, parse_barrages_table, save_to_json and
\* insert_to_postgres in that order; when the fetch fails or no row is parsed,
\* nothing is saved or inserted and run returns False; the insert is attempted
\* only when DATABASE_URL is set; and run returns True as soon as one row was
\* parsed, whatever save_to_json and insert_to_postgres did.
C10_RunOrderAndResult ==
    /\ Len(steps) <= Len(RunSteps)
    /\ \A i \in DOMAIN steps : steps[i] = RunSteps[i]
    /\ (Finished /\ (html.t = "none" \/ html.blank \/ barrages = <<>>)) =>
           /\ ~StepTaken("save_to_json")
           /\ ~StepTaken("insert_to_postgres")
           /\ json_file = json_before
           /\ pg_table = <<>>
           /\ run_result = "False"
    /\ StepTaken("insert_to_postgres") => db_url = "url"
    /\ (Finished /\ barrages # <<>>) => run_result = "True"
    /\ pc = "exited" => exit_code = (IF run_result = "True" THEN "0" ELSE "1")

\* Rows were parsed, the JSON save failed after truncating the earlier
\* document, the PostgreSQL insert failed too, and run still returned True.
C10_Witness ==
    /\ pc = "exited"
    /\ barrages # <<>>
    /\ steps = RunSteps
    /\ json_before = PreviousDocument
    /\ json_file = BrokenFile
    /\ pg_table = <<>>
    /\ run_result = "True"
    /\ exit_code = "0"

=============================================================================
